---- MODULE Spec2Model ----
(***************************************************************************)
(* Model of BibliotecaAPI (biblioteca_python_setup.py): cerca_libri,       *)
(* crea_prestito and statistiche running against the MongoDB collections   *)
(* categorie, autori, libri, utenti and prestiti.                          *)
(*                                                                         *)
(* Every store round-trip of a handler is one step, so that calls issued   *)
(* by different clients interleave exactly where the code lets them.       *)
(* A Python None is modelled as the empty set and a present value v as     *)
(* {v}; a missing document is the record with _id = 0.  A collection is    *)
(* the sequence of its documents in insertion order and the i-th document  *)
(* has _id = i.  Time is counted in days.                                  *)
(***************************************************************************)
EXTENDS Integers, Sequences, FiniteSets, TLC

\* ------------------------------------------------------------------ bounds
\* Largest numero_copie a book starts with.
MaxCopie == 3
\* Number of API calls issued in one behaviour.
MaxChiamate == 3
\* Number of crea_prestito calls issued in one behaviour of a single client
\* that calls nothing else.
MaxSequenza == 4
\* Number of times the clock advances in one behaviour.
MaxTick == 1
\* Days the clock advances by in one step (longer than one loan period).
Passo == 31

\* ------------------------------------------------------- program constants
\* crea_prestito(..., giorni: int = 30)
GiorniDefault == 30
\* timedelta(days=30) of the sample loans
GiorniEsempio == 30
\* {'$limit': 5}
LimitePiuPrestati == 5

\* Clients that call crea_prestito concurrently (no in-process locking).
Procs == {1, 2}

\* ---------------------------------------------------------------- store
VARIABLES
    categorie,    \* db.categorie
    autori,       \* db.autori
    libri,        \* db.libri
    utenti,       \* db.utenti
    prestiti,     \* db.prestiti
    now           \* datetime.now(), in days

\* ------------------------------------------------- crea_prestito, per call
VARIABLES
    pc,           \* position of each crea_prestito call
    arg,          \* its arguments utente_id, libro_id, giorni
    libro,        \* its local `libro` (the document read at line 367)
    prestito,     \* its local `prestito` (the document built at line 377)
    result,       \* its local `result` (inserted_id of line 386, 0 before)
    ret           \* the dict it returns

\* ------------------------------------------------ cerca_libri, statistiche
VARIABLES
    ricerca,      \* the last cerca_libri call: arguments, store read, list returned
    stat_pc,      \* position of the statistiche call
    stat_ora,     \* the datetime.now() it put in the filter of line 417
    stats         \* its local `stats`, and the dict it returns

\* ------------------------------------------------------------- history
VARIABLES
    chiamate,     \* number of API calls issued so far
    tick,         \* number of clock advances so far
    libri0,       \* db.libri when the API started
    prestiti0,    \* db.prestiti when the API started
    riusciti,     \* per book: calls that returned success
    parziali      \* per book: calls that failed after their insert_one

store == <<categorie, autori, libri, utenti, prestiti>>
locali == <<pc, arg, libro, prestito, result, ret>>
statistica == <<stat_pc, stat_ora, stats>>
storia == <<chiamate, tick, libri0, prestiti0, riusciti, parziali>>
vars == <<categorie, autori, libri, utenti, prestiti, now, pc, arg, libro,
          prestito, result, ret, ricerca, stat_pc, stat_ora, stats, chiamate, tick,
          libri0, prestiti0, riusciti, parziali>>

\* ------------------------------------------------------------ sample data
\* The categories, authors and books of load_sample_data (lines 104-209).
CategorieEsempio ==
    << [_id |-> 1, nome |-> "Narrativa Italiana"],
       [_id |-> 2, nome |-> "Fantascienza"],
       [_id |-> 3, nome |-> "Saggistica"],
       [_id |-> 4, nome |-> "Poesia"],
       [_id |-> 5, nome |-> "Storia"],
       [_id |-> 6, nome |-> "Filosofia"],
       [_id |-> 7, nome |-> "Gialli"],
       [_id |-> 8, nome |-> "Classici"] >>

AutoriEsempio ==
    << [_id |-> 1, cognome |-> "Manzoni"],
       [_id |-> 2, cognome |-> "Calvino"],
       [_id |-> 3, cognome |-> "Eco"],
       [_id |-> 4, cognome |-> "Ferrante"],
       [_id |-> 5, cognome |-> "Saviano"],
       [_id |-> 6, cognome |-> "Levi"],
       [_id |-> 7, cognome |-> "Garcia Marquez"],
       [_id |-> 8, cognome |-> "Orwell"],
       [_id |-> 9, cognome |-> "Christie"],
       [_id |-> 10, cognome |-> "Asimov"] >>

Libro(id, titolo, isbn, anno, cat, aut, n, d) ==
    [_id |-> id, titolo |-> titolo, isbn |-> isbn, anno_pubblicazione |-> anno,
     categoria_id |-> cat, autore_ids |-> aut, numero_copie |-> n,
     disponibile |-> d]

\* The five sample books; "L'Amica Geniale" (1 copy, disponibile False in the
\* sample data) with numero_copie n and disponibile d.
LibriEsempio(n, d) ==
    << Libro(1, "I Promessi Sposi", "9788804123456", 1827, 1, <<1>>, 3, TRUE),
       Libro(2, "Le Citta Invisibili", "9788806234567", 1972, 1, <<2>>, 2, TRUE),
       Libro(3, "Il Nome della Rosa", "9788845292344", 1980, 7, <<3>>, 4, TRUE),
       Libro(4, "L'Amica Geniale", "9788866345678", 2011, 1, <<4>>, n, d),
       Libro(5, "1984", "9780451524935", 1949, 2, <<8>>, 3, TRUE) >>

\* The stores the API starts from: "L'Amica Geniale" is stored with
\* disponibile equal to numero_copie > 0, or with 1 copy and disponibile
\* False as in the sample data.
LibriIniziali ==
    { LibriEsempio(n, n > 0) : n \in 0..MaxCopie } \cup
    { LibriEsempio(1, FALSE) }

\* Member 1 is active, member 2 is not; no member has _id 9.
UtentiEsempio ==
    << [_id |-> 1, attivo |-> TRUE],
       [_id |-> 2, attivo |-> FALSE] >>

\* A sample loan: due GiorniEsempio days after it started; a returned one
\* carries data_restituzione, an active one does not.
PrestitoEsempio(id, u, l, inizio, stato) ==
    [_id |-> id, utente_id |-> u, libro_id |-> l, data_prestito |-> inizio,
     data_scadenza |-> inizio + GiorniEsempio, stato |-> stato,
     data_restituzione |-> IF stato = "restituito" THEN {inizio + 1} ELSE {}]

\* Two sample loans, which leave numero_copie as it is; the state of each is
\* drawn at random, and the second has been returned.
PrestitiIniziali ==
    { << PrestitoEsempio(1, 1, 4, 0, stato),
         PrestitoEsempio(2, 1, 2, 0, "restituito") >> :
      stato \in {"attivo", "restituito"} }

\* ------------------------------------------------------- store primitives
NessunDocumento == [_id |-> 0]

\* collection.find_one({'_id': id})
find_one(coll, id) ==
    IF \E i \in DOMAIN coll : coll[i]._id = id
    THEN coll[CHOOSE i \in DOMAIN coll : coll[i]._id = id]
    ELSE NessunDocumento

\* collection.count_documents(filter), the filter a dict of field values:
\* the documents that have the value of every field of the filter.
count_documents(coll, filtro) ==
    Cardinality({i \in DOMAIN coll :
        \A campo \in DOMAIN filtro : coll[i][campo] = filtro[campo]})

\* ------------------------------------------------------------ arguments
\* The ids the calls are made with: 9 is the id of no document.
UtenteIds == {1, 2, 9}
LibroIds == {2, 4, 9}
Giorni == {GiorniDefault}
\* str(e) of the exception a store call raises when the server is unreachable
Eccezioni == {"ServerSelectionTimeoutError"}

NessunArg == [utente_id |-> 0, libro_id |-> 0, giorni |-> 0]
NessunRet == [success |-> FALSE, error |-> "", prestito_id |-> 0, data_scadenza |-> 0]

NessunaStat ==
    [totale_libri |-> 0, libri_disponibili |-> 0, prestiti_attivi |-> 0,
     utenti_registrati |-> 0, prestiti_scaduti |-> 0,
     libri_piu_prestati |-> <<>>, vuoto |-> TRUE]

\* ------------------------------------------------------------------ Init
Init ==
    /\ categorie = CategorieEsempio
    /\ autori = AutoriEsempio
    /\ libri \in LibriIniziali
    /\ utenti = UtentiEsempio
    /\ prestiti \in PrestitiIniziali
    /\ now = 0
    /\ pc = [p \in Procs |-> "idle"]
    /\ arg = [p \in Procs |-> NessunArg]
    /\ libro = [p \in Procs |-> NessunDocumento]
    /\ result = [p \in Procs |-> 0]
    /\ prestito = [p \in Procs |-> NessunDocumento]
    /\ ret = [p \in Procs |-> NessunRet]
    /\ ricerca = <<>>
    /\ stat_pc = "idle"
    /\ stat_ora = 0
    /\ stats = NessunaStat
    /\ chiamate = 0
    /\ tick = 0
    /\ libri0 = libri
    /\ prestiti0 = prestiti
    /\ riusciti = [l \in LibroIds |-> 0]
    /\ parziali = [l \in LibroIds |-> 0]

\* --------------------------------------------------------- crea_prestito
\* crea_prestito with the two writes exchanged: update_one(libri) before
\* insert_one(prestiti).
Dopo_update_prima(pos) ==
    CASE pos = "find_libro" -> "find_utente"
      [] pos = "find_utente" -> "update"
      [] pos = "update" -> "insert"
      [] pos = "insert" -> "return"

\* The order of the statements of crea_prestito that call the store:
\* find_one(libri), find_one(utenti), insert_one(prestiti), update_one(libri),
\* and then the return of the success dict.
Dopo(pos) ==
    CASE pos = "find_libro" -> "find_utente"
      [] pos = "find_utente" -> "insert"
      [] pos = "insert" -> "update"
      [] pos = "update" -> "return"

\* A client calls crea_prestito(utente_id, libro_id, giorni); the call is
\* served by the first client that has none.
Chiama(p, u, l, g) ==
    /\ pc[p] = "idle"
    /\ \A q \in Procs : q < p => pc[q] # "idle"
    /\ chiamate' = chiamate + 1
    /\ pc' = [pc EXCEPT ![p] = "find_libro"]
    /\ arg' = [arg EXCEPT ![p] = [utente_id |-> u, libro_id |-> l, giorni |-> g]]
    /\ UNCHANGED <<store, now, libro, prestito, result, ret, ricerca,
                   statistica, tick, libri0, prestiti0, riusciti, parziali>>

\* Control after the statement at pc[p] completed with `result` = r: the next
\* statement, or the return of the success dict after the last one.
Prosegui(p, r) ==
    IF Dopo(pc[p]) = "return"
    THEN /\ pc' = [pc EXCEPT ![p] = "done"]
         /\ ret' = [ret EXCEPT ![p] =
                [success |-> TRUE, error |-> "", prestito_id |-> r,
                 data_scadenza |-> prestito[p].data_scadenza]]
         /\ riusciti' = [riusciti EXCEPT ![arg[p].libro_id] = @ + 1]
    ELSE /\ pc' = [pc EXCEPT ![p] = Dopo(pc[p])]
         /\ UNCHANGED <<ret, riusciti>>

\* The check of line 368 without its test of `disponibile`.
NonDisponibile_senza_flag(doc) ==
    \/ doc._id = 0
    \/ doc.numero_copie <= 0

\* `not libro or not libro.get('disponibile') or
\*  libro.get('numero_copie', 0) <= 0`
NonDisponibile(doc) ==
    \/ doc._id = 0
    \/ ~doc.disponibile
    \/ doc.numero_copie <= 0

\* Lines 367-369: read the book and check its availability.
VerificaLibro(p) ==
    /\ pc[p] = "find_libro"
    /\ LET doc == find_one(libri, arg[p].libro_id) IN
       /\ libro' = [libro EXCEPT ![p] = doc]
       /\ IF NonDisponibile(doc)
          THEN /\ pc' = [pc EXCEPT ![p] = "done"]
               /\ ret' = [ret EXCEPT ![p] =
                      [NessunRet EXCEPT !.error = "Libro non disponibile"]]
          ELSE /\ pc' = [pc EXCEPT ![p] = Dopo(pc[p])]
               /\ UNCHANGED ret
    /\ UNCHANGED <<store, now, arg, prestito, result, ricerca, statistica,
                   storia>>

\* `not utente or not utente.get('attivo')`
NonValido(doc) ==
    \/ doc._id = 0
    \/ ~doc.attivo

\* Lines 372-384: read the member, check it, and build the loan document.
VerificaUtente(p) ==
    /\ pc[p] = "find_utente"
    /\ LET doc == find_one(utenti, arg[p].utente_id) IN
       IF NonValido(doc)
       THEN /\ pc' = [pc EXCEPT ![p] = "done"]
            /\ ret' = [ret EXCEPT ![p] =
                   [NessunRet EXCEPT !.error = "Utente non valido"]]
            /\ UNCHANGED prestito
       ELSE /\ pc' = [pc EXCEPT ![p] = Dopo(pc[p])]
            /\ prestito' = [prestito EXCEPT ![p] =
                   [_id |-> 0, utente_id |-> arg[p].utente_id,
                    libro_id |-> arg[p].libro_id, data_prestito |-> now,
                    data_scadenza |-> now + arg[p].giorni, stato |-> "attivo",
                    data_restituzione |-> {}]]
            /\ UNCHANGED ret
    /\ UNCHANGED <<store, now, arg, libro, result, ricerca, statistica,
                   storia>>

\* insert_one that also marks every loan already stored as returned.
InserisciPrestito_che_restituisce(p) ==
    /\ pc[p] = "insert"
    /\ LET id == Len(prestiti) + 1 IN
       /\ prestiti' = Append([i \in DOMAIN prestiti |->
                                 [prestiti[i] EXCEPT !.stato = "restituito"]],
                             [prestito[p] EXCEPT !._id = id])
       /\ result' = [result EXCEPT ![p] = id]
       /\ Prosegui(p, id)
    /\ UNCHANGED <<categorie, autori, libri, utenti, now, arg, libro, prestito,
                   ricerca, statistica, chiamate, tick, libri0, prestiti0,
                   parziali>>

\* Line 386: result = self.db.prestiti.insert_one(prestito).
InserisciPrestito(p) ==
    /\ pc[p] = "insert"
    /\ LET id == Len(prestiti) + 1 IN
       /\ prestiti' = Append(prestiti, [prestito[p] EXCEPT !._id = id])
       /\ result' = [result EXCEPT ![p] = id]
       /\ Prosegui(p, id)
    /\ UNCHANGED <<categorie, autori, libri, utenti, now, arg, libro, prestito,
                   ricerca, statistica, chiamate, tick, libri0, prestiti0,
                   parziali>>

\* The update of line 389 without its $inc.
update_one_senza_inc(coll, id, disp) ==
    [i \in DOMAIN coll |->
        IF coll[i]._id = id
        THEN [coll[i] EXCEPT !.disponibile = disp]
        ELSE coll[i]]

\* update_one({'_id': id}, {'$inc': {'numero_copie': -1},
\*                          '$set': {'disponibile': disp}})
update_one(coll, id, disp) ==
    [i \in DOMAIN coll |->
        IF coll[i]._id = id
        THEN [coll[i] EXCEPT !.numero_copie = @ - 1, !.disponibile = disp]
        ELSE coll[i]]

\* Lines 389-395: decrement the copies; disponibile is computed from the
\* numero_copie this call read at line 367.
AggiornaLibro(p) ==
    /\ pc[p] = "update"
    /\ libri' = update_one(libri, arg[p].libro_id, libro[p].numero_copie > 1)
    /\ Prosegui(p, result[p])
    /\ UNCHANGED <<categorie, autori, utenti, prestiti, now, arg, libro,
                   prestito, result, ricerca, statistica, chiamate, tick,
                   libri0, prestiti0, parziali>>

\* Lines 403-405: a store call raises; the call returns str(e).  The store
\* call that raised is not applied.
Eccezione(p, e) ==
    /\ pc[p] \in {"find_libro", "find_utente", "insert", "update"}
    /\ pc' = [pc EXCEPT ![p] = "done"]
    /\ ret' = [ret EXCEPT ![p] = [NessunRet EXCEPT !.error = e]]
    /\ parziali' = IF result[p] # 0
                   THEN [parziali EXCEPT ![arg[p].libro_id] = @ + 1]
                   ELSE parziali
    /\ UNCHANGED <<store, now, arg, libro, prestito, result, ricerca,
                   statistica, chiamate, tick, libri0, prestiti0, riusciti>>

\* The caller takes the returned dict; the locals of the call are gone.
Ritorna(p) ==
    /\ pc[p] = "done"
    /\ pc' = [pc EXCEPT ![p] = "idle"]
    /\ arg' = [arg EXCEPT ![p] = NessunArg]
    /\ libro' = [libro EXCEPT ![p] = NessunDocumento]
    /\ prestito' = [prestito EXCEPT ![p] = NessunDocumento]
    /\ result' = [result EXCEPT ![p] = 0]
    /\ ret' = [ret EXCEPT ![p] = NessunRet]
    /\ UNCHANGED <<store, now, ricerca, statistica, storia>>

\* datetime.now() advances.
Tick ==
    /\ tick < MaxTick
    /\ tick' = tick + 1
    /\ now' = now + Passo
    /\ UNCHANGED <<store, locali, ricerca, statistica, chiamate, libri0,
                   prestiti0, riusciti, parziali>>

\* ----------------------------------------------------------- cerca_libri
\* The terms the text index on titolo holds for a title, and the terms of a
\* $search string.
Parole(testo) ==
    CASE testo = "I Promessi Sposi" -> {"i", "promessi", "sposi"}
      [] testo = "Le Citta Invisibili" -> {"le", "citta", "invisibili"}
      [] testo = "Il Nome della Rosa" -> {"il", "nome", "della", "rosa"}
      [] testo = "L'Amica Geniale" -> {"l", "amica", "geniale"}
      [] testo = "1984" -> {"1984"}
      [] testo = "geniale rosa" -> {"geniale", "rosa"}
      [] OTHER -> {}

\* {'$text': {'$search': query}}: some term of the query is in the title.
Testo(doc, query) == Parole(doc.titolo) \cap Parole(query) # {}

\* self.db.categorie.find_one({'nome': categoria})
find_one_nome(coll, nome) ==
    IF \E i \in DOMAIN coll : coll[i].nome = nome
    THEN coll[CHOOSE i \in DOMAIN coll : coll[i].nome = nome]
    ELSE NessunDocumento

\* Lines 312-324: the conditions of the $match stage.  A condition the code
\* does not put in match_conditions holds of every book.
match_conditions(cats, doc, query, categoria, disponibile) ==
    /\ \A q \in query : q # "" => Testo(doc, q)
    /\ \A c \in categoria : c # "" =>
           LET cat == find_one_nome(cats, c) IN
           cat._id # 0 => doc.categoria_id = cat._id
    /\ \A d \in disponibile : doc.disponibile = d

\* The $lookup stages and the $project stage for one book.
project(cats, auts, doc) ==
    LET autori_info == SelectSeq(auts,
            LAMBDA a : \E k \in DOMAIN doc.autore_ids : doc.autore_ids[k] = a._id)
        categoria_info == SelectSeq(cats, LAMBDA c : c._id = doc.categoria_id)
    IN  [_id |-> doc._id, titolo |-> doc.titolo, isbn |-> doc.isbn,
         anno_pubblicazione |-> doc.anno_pubblicazione,
         disponibile |-> doc.disponibile, numero_copie |-> doc.numero_copie,
         autori |-> [k \in DOMAIN autori_info |-> autori_info[k].cognome],
         categoria |-> IF categoria_info = <<>> THEN {}
                       ELSE {categoria_info[1].nome}]

\* Lines 326-357: list(self.db.libri.aggregate(pipeline)), the matching books
\* in the order of the collection.
cerca_libri(cats, auts, libs, query, categoria, disponibile) ==
    LET trovati == SelectSeq(libs,
            LAMBDA doc : match_conditions(cats, doc, query, categoria, disponibile))
    IN  [k \in DOMAIN trovati |-> project(cats, auts, trovati[k])]

Queries == {{}, {"geniale rosa"}}
NomiCategoria == {{}, {"Fantascienza"}, {"Horror"}}
Disponibili == {{}, {TRUE}, {FALSE}}

\* A search that takes a copy of every book it finds.
Cerca_che_scrive(q, c, d) ==
    /\ ricerca = <<>>
    /\ chiamate' = chiamate + 1
    /\ ricerca' = << [query |-> q, categoria |-> c, disponibile |-> d,
                      visto |-> store, errore |-> FALSE,
                      risultati |-> cerca_libri(categorie, autori, libri, q, c, d)] >>
    /\ libri' = [i \in DOMAIN libri |->
                    IF match_conditions(categorie, libri[i], q, c, d)
                    THEN [libri[i] EXCEPT !.numero_copie = @ - 1]
                    ELSE libri[i]]
    /\ UNCHANGED <<categorie, autori, utenti, prestiti, now, locali,
                   statistica, tick, libri0, prestiti0, riusciti, parziali>>

\* A client calls cerca_libri(query, categoria, disponibile=disponibile) and
\* the list is returned.
Cerca(q, c, d) ==
    /\ ricerca = <<>>
    /\ chiamate' = chiamate + 1
    /\ ricerca' = << [query |-> q, categoria |-> c, disponibile |-> d,
                      visto |-> store, errore |-> FALSE,
                      risultati |-> cerca_libri(categorie, autori, libri, q, c, d)] >>
    /\ UNCHANGED <<store, now, locali, statistica, tick, libri0, prestiti0,
                   riusciti, parziali>>

\* Lines 359-361: a store call of cerca_libri raises; the error is logged and
\* the empty list returned.
CercaEccezione(q, c, d) ==
    /\ ricerca = <<>>
    /\ chiamate' = chiamate + 1
    /\ ricerca' = << [query |-> q, categoria |-> c, disponibile |-> d,
                      visto |-> store, errore |-> TRUE, risultati |-> <<>>] >>
    /\ UNCHANGED <<store, now, locali, statistica, tick, libri0, prestiti0,
                   riusciti, parziali>>

\* The caller takes the returned list.
CercaRitorna ==
    /\ ricerca # <<>>
    /\ ricerca' = <<>>
    /\ UNCHANGED <<store, now, locali, statistica, storia>>

\* ----------------------------------------------------------- statistiche
\* The order of the store calls of statistiche.
StatDopo(pos) ==
    CASE pos = "totale_libri" -> "libri_disponibili"
      [] pos = "libri_disponibili" -> "prestiti_attivi"
      [] pos = "prestiti_attivi" -> "utenti_registrati"
      [] pos = "utenti_registrati" -> "prestiti_scaduti"
      [] pos = "prestiti_scaduti" -> "libri_piu_prestati"
      [] pos = "libri_piu_prestati" -> "done"

\* The filter of line 415 without 'stato': 'attivo'.
prestiti_scaduti_senza_stato(coll, ora) ==
    Cardinality({i \in DOMAIN coll : coll[i].data_scadenza < ora})

\* Lines 415-418: count_documents({'stato': 'attivo',
\*                                 'data_scadenza': {'$lt': ora}})
prestiti_scaduti(coll, ora) ==
    Cardinality({i \in DOMAIN coll :
        /\ coll[i].stato = "attivo"
        /\ coll[i].data_scadenza < ora})

\* Lines 422-436: the pipeline $group by libro_id, $sort by count descending,
\* $limit, $lookup in libri.  $sort leaves the order of equal counts open, so
\* every order of them is a possible result.
libri_piu_prestati(coll, libs) ==
    LET ids == {coll[i].libro_id : i \in DOMAIN coll}
        count(id) == Cardinality({i \in DOMAIN coll : coll[i].libro_id = id})
        n == Cardinality(ids)
        ordini == {o \in [1..n -> ids] :
                      /\ \A i, j \in 1..n : i # j => o[i] # o[j]
                      /\ \A i, j \in 1..n : i < j => count(o[i]) >= count(o[j])}
        m == IF n < LimitePiuPrestati THEN n ELSE LimitePiuPrestati
    IN  { [k \in 1..m |->
              [_id |-> o[k], count |-> count(o[k]),
               libro |-> SelectSeq(libs, LAMBDA doc : doc._id = o[k])]] :
          o \in ordini }

\* A client calls statistiche().
StatChiama ==
    /\ stat_pc = "idle"
    /\ chiamate' = chiamate + 1
    /\ stat_pc' = "totale_libri"
    /\ UNCHANGED <<stat_ora, stats>>
    /\ UNCHANGED <<store, now, locali, ricerca, tick, libri0, prestiti0,
                   riusciti, parziali>>

\* Lines 410-436: one store call of statistiche, each a read of its own.
StatPasso ==
    /\ stat_pc \notin {"idle", "done"}
    /\ stat_pc' = StatDopo(stat_pc)
    /\ stat_ora' = IF stat_pc = "prestiti_scaduti" THEN now ELSE stat_ora
    /\ \/ /\ stat_pc = "totale_libri"
          /\ stats' = [stats EXCEPT !.vuoto = FALSE,
                 !.totale_libri = count_documents(libri, <<>>)]
       \/ /\ stat_pc = "libri_disponibili"
          /\ stats' = [stats EXCEPT
                 !.libri_disponibili = count_documents(libri, [disponibile |-> TRUE])]
       \/ /\ stat_pc = "prestiti_attivi"
          /\ stats' = [stats EXCEPT
                 !.prestiti_attivi = count_documents(prestiti, [stato |-> "attivo"])]
       \/ /\ stat_pc = "utenti_registrati"
          /\ stats' = [stats EXCEPT
                 !.utenti_registrati = count_documents(utenti, [attivo |-> TRUE])]
       \/ /\ stat_pc = "prestiti_scaduti"
          /\ stats' = [stats EXCEPT
                 !.prestiti_scaduti = prestiti_scaduti(prestiti, now)]
       \/ /\ stat_pc = "libri_piu_prestati"
          /\ \E top \in libri_piu_prestati(prestiti, libri) :
                 stats' = [stats EXCEPT !.libri_piu_prestati = top]
    /\ UNCHANGED <<store, now, locali, ricerca, storia>>

\* Lines 440-442: a store call of statistiche raises; {} is returned.
StatEccezione ==
    /\ stat_pc \notin {"idle", "done"}
    /\ stat_pc' = "done"
    /\ stats' = NessunaStat
    /\ UNCHANGED <<store, now, locali, ricerca, stat_ora, storia>>

\* The caller takes the returned dict.
StatRitorna ==
    /\ stat_pc = "done"
    /\ stat_pc' = "idle"
    /\ stat_ora' = 0
    /\ stats' = NessunaStat
    /\ UNCHANGED <<store, now, locali, ricerca, storia>>

\* ------------------------------------------------------- specifications
NextPrestiti ==
    \/ \E p \in Procs, u \in UtenteIds, l \in LibroIds, g \in Giorni :
           chiamate < MaxChiamate /\ Chiama(p, u, l, g)
    \/ \E p \in Procs : VerificaLibro(p)
    \/ \E p \in Procs : VerificaUtente(p)
    \/ \E p \in Procs : InserisciPrestito(p)
    \/ \E p \in Procs : AggiornaLibro(p)
    \/ \E p \in Procs, e \in Eccezioni : Eccezione(p, e)
    \/ \E p \in Procs : Ritorna(p)


\* No call of any operation is in progress.
Libero ==
    /\ \A p \in Procs : pc[p] = "idle"
    /\ stat_pc = "idle"
    /\ ricerca = <<>>

\* The steps of a crea_prestito call in progress.
PassiPrestito ==
    \/ \E p \in Procs : VerificaLibro(p)
    \/ \E p \in Procs : VerificaUtente(p)
    \/ \E p \in Procs : InserisciPrestito(p)
    \/ \E p \in Procs : AggiornaLibro(p)
    \/ \E p \in Procs, e \in Eccezioni : Eccezione(p, e)
    \/ \E p \in Procs : Ritorna(p)

\* crea_prestito called again and again by a single client.
NextSeq ==
    \/ \E p \in Procs, u \in UtenteIds, l \in LibroIds, g \in Giorni :
           Libero /\ chiamate < MaxSequenza /\ Chiama(p, u, l, g)
    \/ PassiPrestito

\* crea_prestito and statistiche called one after the other, as time passes.
NextStat ==
    \/ \E p \in Procs, u \in UtenteIds, l \in LibroIds, g \in Giorni :
           Libero /\ chiamate < MaxChiamate /\ Chiama(p, u, l, g)
    \/ Libero /\ chiamate < MaxChiamate /\ StatChiama
    \/ PassiPrestito
    \/ StatPasso
    \/ StatEccezione
    \/ StatRitorna
    \/ Tick

\* crea_prestito and cerca_libri called one after the other.
NextRicerca ==
    \/ \E p \in Procs, u \in UtenteIds, l \in LibroIds, g \in Giorni :
           Libero /\ chiamate < MaxChiamate /\ Chiama(p, u, l, g)
    \/ \E q \in Queries, c \in NomiCategoria, d \in Disponibili :
           Libero /\ chiamate < MaxChiamate /\ Cerca(q, c, d)
    \/ \E q \in Queries, c \in NomiCategoria, d \in Disponibili :
           Libero /\ chiamate < MaxChiamate /\ CercaEccezione(q, c, d)
    \/ CercaRitorna
    \/ PassiPrestito

\* The three operations called by concurrent clients, as time passes.
Next ==
    \/ \E p \in Procs, u \in UtenteIds, l \in LibroIds, g \in Giorni :
           chiamate < MaxChiamate /\ Chiama(p, u, l, g)
    \/ \E q \in Queries, c \in NomiCategoria, d \in Disponibili :
           chiamate < MaxChiamate /\ Cerca(q, c, d)
    \/ \E q \in Queries, c \in NomiCategoria, d \in Disponibili :
           chiamate < MaxChiamate /\ CercaEccezione(q, c, d)
    \/ CercaRitorna
    \/ chiamate < MaxChiamate /\ StatChiama
    \/ PassiPrestito
    \/ StatPasso
    \/ StatEccezione
    \/ StatRitorna
    \/ Tick

\* Concurrent crea_prestito calls alone.
SpecPrestiti == Init /\ [][NextPrestiti]_vars
\* One call at a time: loans.
SpecSeq == Init /\ [][NextSeq]_vars
\* One call at a time: loans and statistics.
SpecStat == Init /\ [][NextStat]_vars
\* One call at a time: loans and searches.
SpecRicerca == Init /\ [][NextRicerca]_vars
\* Everything, concurrently.
Spec == Init /\ [][Next]_vars

\* ------------------------------------------------------------ properties
\* No crea_prestito call is in progress.
Quiete == \A p \in Procs : pc[p] \in {"idle", "done"}

\* disponibile == (numero_copie > 0) for every book of libs.
Coerente(libs) ==
    \A i \in DOMAIN libs : libs[i].disponibile = (libs[i].numero_copie > 0)

\* The loans inserted since the API started that reference book l and are
\* in state attivo.
NuoviPrestiti(l) ==
    Cardinality({i \in DOMAIN prestiti :
        /\ i > Len(prestiti0)
        /\ prestiti[i].libro_id = l
        /\ prestiti[i].stato = "attivo"})

\* C1: started from a store in which disponibile == (numero_copie > 0) for
\* every book, whenever no crea_prestito call is in progress (each has
\* succeeded or failed), disponibile == (numero_copie > 0) for every book.
C1_DisponibileCoerente ==
    (Coerente(libri0) /\ Quiete) => Coerente(libri)

\* C2: with no call in progress, for a book with initial numero_copie C and
\* N <= C successful calls, numero_copie = C - N and exactly N new loans in
\* state attivo reference the book.
C2_Conservazione ==
    Quiete =>
        \A i \in DOMAIN libri :
            LET l == libri[i]._id IN
            (l \in LibroIds /\ riusciti[l] <= libri0[i].numero_copie) =>
                /\ libri[i].numero_copie = libri0[i].numero_copie - riusciti[l]
                /\ NuoviPrestiti(l) = riusciti[l]

\* C2, amended: with no call in progress, for a book with initial
\* numero_copie C and N <= C successful calls, numero_copie = C - N and the
\* new loans in state attivo that reference the book are N plus one for every
\* call that failed after its insert_one.
C2_ConservazioneConParziali ==
    Quiete =>
        \A i \in DOMAIN libri :
            LET l == libri[i]._id IN
            (l \in LibroIds /\ riusciti[l] <= libri0[i].numero_copie) =>
                /\ libri[i].numero_copie = libri0[i].numero_copie - riusciti[l]
                /\ NuoviPrestiti(l) = riusciti[l] + parziali[l]

\* Two calls on the same book succeeded and a third failed after its insert.
C2_Testimone ==
    /\ Quiete
    /\ \E l \in LibroIds : riusciti[l] = 2 /\ parziali[l] = 1

\* C3: under every interleaving numero_copie is never negative and the
\* successful calls on a book never exceed its initial numero_copie.
C3_MaiNegativo ==
    \A i \in DOMAIN libri :
        /\ libri[i].numero_copie >= 0
        /\ libri[i]._id \in LibroIds =>
               riusciti[libri[i]._id] <= libri0[i].numero_copie

\* C4: a call that reads a book with numero_copie = 0, or with disponibile
\* false, ends with the error "Libro non disponibile", inserts no loan and
\* leaves libri as it is; and after as many successful calls as the book had
\* copies (three on a book with 3) numero_copie is 0 and disponibile false,
\* so that the next call is such a call.
C4_LibroNonDisponibile ==
    [][ /\ \A p \in Procs :
            LET doc == find_one(libri, arg[p].libro_id) IN
            ( /\ pc[p] = "find_libro"
              /\ doc._id # 0
              /\ (doc.numero_copie = 0 \/ ~doc.disponibile)
              /\ VerificaLibro(p) )
            => /\ pc'[p] = "done"
               /\ ~ret'[p].success
               /\ ret'[p].error = "Libro non disponibile"
               /\ result'[p] = 0
               /\ prestiti' = prestiti
               /\ libri' = libri
        /\ \A i \in DOMAIN libri' :
            ( /\ libri'[i]._id \in LibroIds
              /\ libri0[i].disponibile
              /\ libri0[i].numero_copie > 0
              /\ riusciti'[libri'[i]._id] = libri0[i].numero_copie )
            => /\ libri'[i].numero_copie = 0
               /\ ~libri'[i].disponibile
      ]_vars

\* The fourth call on a book that had 3 copies, after three successful ones,
\* has failed with "Libro non disponibile".
C4_Testimone ==
    \E p \in Procs :
        /\ pc[p] = "done"
        /\ ret[p].error = "Libro non disponibile"
        /\ arg[p].libro_id = 4
        /\ libri0[4].numero_copie = 3
        /\ riusciti[4] = 3
        /\ libro[p].numero_copie = 0

\* The call of p got past the test of the book (line 368) and returned at the
\* test of the member (line 373).
FallitaPerUtente(p) ==
    /\ pc[p] = "done"
    /\ ~ret[p].success
    /\ ret[p].error \notin Eccezioni
    /\ ~NonDisponibile(libro[p])

\* C5: the error returned for a member id with no document differs from the
\* error returned for a member that exists and is not active.
C5_UtenteInesistenteDistinto ==
    \A p, q \in Procs :
        ( /\ FallitaPerUtente(p)
          /\ find_one(utenti, arg[p].utente_id)._id = 0
          /\ FallitaPerUtente(q)
          /\ find_one(utenti, arg[q].utente_id)._id # 0 )
        => ret[p].error # ret[q].error

\* C6: the dict returned by a call that failed after its insert_one (the loan
\* stays in prestiti, numero_copie is not decremented) differs from the dict
\* returned by a call that failed having written nothing.
C6_FallimentoParzialeDistinto ==
    \A p, q \in Procs :
        ( /\ pc[p] = "done" /\ ~ret[p].success /\ result[p] # 0
          /\ pc[q] = "done" /\ ~ret[q].success /\ result[q] = 0 )
        => ret[p] # ret[q]

\* C7: a search by a category name that no category has, which raised no
\* store error, returns the empty list.
C7_CategoriaInesistenteVuota ==
    \A k \in DOMAIN ricerca :
        ( /\ ~ricerca[k].errore
          /\ \E c \in ricerca[k].categoria :
                 find_one_nome(categorie, c)._id = 0 )
        => ricerca[k].risultati = <<>>

C9_Statistiche ==
    (stat_pc = "done" /\ ~stats.vuoto) =>
        /\ stats.totale_libri = Len(libri)
        /\ stats.libri_disponibili =
               Cardinality({i \in DOMAIN libri : libri[i].disponibile})
        /\ stats.prestiti_attivi =
               Cardinality({i \in DOMAIN prestiti : prestiti[i].stato = "attivo"})
        /\ stats.prestiti_scaduti =
               Cardinality({i \in DOMAIN prestiti :
                   /\ prestiti[i].stato = "attivo"
                   /\ prestiti[i].data_scadenza < stat_ora})
        /\ stat_ora <= now

\* Statistics of 5 books (3 available) and 2 active loans (1 overdue), with a
\* returned loan past its due date in the store.
C9_Testimone ==
    /\ stat_pc = "done"
    /\ stats.totale_libri = 5
    /\ stats.libri_disponibili = 3
    /\ stats.prestiti_attivi = 2
    /\ stats.prestiti_scaduti = 1
    /\ \E i \in DOMAIN prestiti :
           /\ prestiti[i].stato = "restituito"
           /\ prestiti[i].data_scadenza < stat_ora

\* C10: in every state, for every book, the loans inserted for it since the
\* API started are at least as many as the decrements applied to its
\* numero_copie.
C10_PrestitoPrimaDelDecremento ==
    \A i \in DOMAIN libri :
        Cardinality({k \in DOMAIN prestiti :
            k > Len(prestiti0) /\ prestiti[k].libro_id = libri[i]._id})
        >= libri0[i].numero_copie - libri[i].numero_copie

\* A call is between its two writes (its loan inserted, its decrement not
\* applied) while the decrement of another call has been applied.
C10_Testimone ==
    \E p \in Procs :
        /\ pc[p] = "update"
        /\ result[p] # 0
        /\ libri[2].numero_copie < libri0[2].numero_copie

\* The state of a loan is attivo or restituito, and the loan carries
\* data_restituzione exactly when it is restituito.
CicloDiVita(doc) ==
    /\ doc.stato \in {"attivo", "restituito"}
    /\ (doc.data_restituzione # {}) = (doc.stato = "restituito")

\* C11: in every state each loan is attivo or restituito and carries a return
\* timestamp exactly when it is restituito; and every step of crea_prestito
\* keeps every loan already stored as it is (none deleted, none changed in
\* state) and adds only loans in state attivo with no return timestamp.
C11_CicloDiVitaPrestito ==
    /\ [](\A i \in DOMAIN prestiti : CicloDiVita(prestiti[i]))
    /\ [][ /\ Len(prestiti') >= Len(prestiti)
           /\ \A i \in DOMAIN prestiti : prestiti'[i] = prestiti[i]
           /\ \A i \in DOMAIN prestiti' :
                  i > Len(prestiti)
                  => /\ prestiti'[i].stato = "attivo"
                     /\ prestiti'[i].data_restituzione = {} ]_vars

\* A call has inserted its loan, in state attivo with no return timestamp,
\* into a store that holds a returned sample loan and an active one.
C11_Testimone ==
    /\ Len(prestiti) > Len(prestiti0)
    /\ prestiti[Len(prestiti)].stato = "attivo"
    /\ prestiti[Len(prestiti)].data_restituzione = {}
    /\ prestiti[1].stato = "attivo"
    /\ prestiti[2].stato = "restituito"
    /\ prestiti[2].data_restituzione # {}

====
